---- MODULE Spec2Model ----
(***************************************************************************)
(* Model of processor/dataprocessor.py (both shipped versions: lab3 and    *)
(* lab4_5): the DataProcessor family CsvDataProcessor / TxtDataProcessor   *)
(* with its operations read and run.                                       *)
(*                                                                         *)
(* A source file is a sequence of lines, a line a sequence of tokens       *)
(* (strings): a token is a delimiter character (";", ",", "|", " ") or a   *)
(* piece of cell text.  A field is the sequence of tokens between two      *)
(* separators, so a field that contains a foreign delimiter is a composite *)
(* text such as <<"7", ";", "8">>.  A DataFrame is a record of column      *)
(* names and rows; a row keeps its index label idx (its position among the *)
(* data lines of the file, from 0), which identifies it after sorting.     *)
(***************************************************************************)
EXTENDS Integers, Sequences, FiniteSets, TLC

VARIABLES
    kind,        \* "csv" (CsvDataProcessor) or "txt" (TxtDataProcessor)
    version,     \* "lab3" or "lab4_5": which shipped dataprocessor.py
    datasource,  \* self._datasource: the content of the file at that path
    dataset,     \* self._dataset
    result,      \* self.result
    separator,   \* the separator printed by a successful CSV read ("" if none)
    ret,         \* value returned by the last read: "none", "true", "false"
    raised,      \* TRUE when the last run raised to its caller
    last,        \* last operation performed: "init", "read", "run"
    runs,        \* number of run calls so far
    loaded,      \* history: the Dataset as the successful read left it
    first        \* history: the Result of the first run

vars == <<kind, version, datasource, dataset, result, separator, ret, raised,
          last, runs, loaded, first>>

----------------------------------------------------------------------------
(* Bounds of the model *)

MaxRows == 2
MaxRuns == 2

----------------------------------------------------------------------------
(* Values *)

\* Python's None for self._dataset / self.result
None == [some |-> FALSE, columns |-> <<>>, rows |-> <<>>]

DataFrame(cols, rws) == [some |-> TRUE, columns |-> cols, rows |-> rws]

\* pandas.DataFrame(): no columns, no rows
EmptyFrame == DataFrame(<<>>, <<>>)

\* numpy.nan as a cell
NaN == <<"nan">>

\* the column names used by run
PriceCol == <<"selling_price">>
CategoryCol == <<"price_category">>

\* self.separators
separators == <<";", ",", "|">>

\* numeric value of a cell text (the parser's text -> number conversion)
Num(cell) ==
    CASE cell[1] = "-7" -> 0 - 7
      [] cell[1] = "0" -> 0
      [] cell[1] = "7" -> 7
      [] cell[1] = "8" -> 8
      [] cell[1] = "500000" -> 500000
      [] cell[1] = "500001" -> 500001
      [] cell[1] = "1500000" -> 1500000
      [] cell[1] = "1500001" -> 1500001

----------------------------------------------------------------------------
(* The source files the processors are run on *)

\* a cell left empty by whoever wrote the file
Missing == <<>>

\* delimiters the files are written with (one space, or a run of two)
FileDelims == {<<";">>, <<",">>, <<"|">>, <<" ">>, <<" ", " ">>}

Headers == {<<PriceCol>>, <<PriceCol, <<"x">>>>, <<<<"x">>, <<"y">>>>}

PriceTexts ==
    {<<t>> : t \in {"-7", "0", "500000", "500001", "1500000", "1500001"}}

\* a number, or a text holding a foreign ';'
OtherTexts == {<<"7">>, <<"7", ";", "8">>}

CellChoices(name) ==
    IF name = PriceCol THEN PriceTexts \cup {Missing}
                       ELSE OtherTexts \cup {Missing}

RowChoices(header) ==
    {r \in [1..Len(header) -> PriceTexts \cup OtherTexts \cup {Missing}] :
        \A j \in 1..Len(header) : r[j] \in CellChoices(header[j])}

\* a whitespace-separated file cannot hold an empty cell: it is written NaN
RenderCell(c, d) == IF c = Missing /\ d[1] = " " THEN <<"NaN">> ELSE c

RECURSIVE RenderLine(_, _)
RenderLine(cells, d) ==
    IF Len(cells) = 0 THEN <<>>
    ELSE IF Len(cells) = 1 THEN RenderCell(cells[1], d)
    ELSE RenderCell(cells[1], d) \o d \o RenderLine(Tail(cells), d)

RenderFile(header, d, t) ==
    <<RenderLine(header, d)>> \o [i \in 1..Len(t) |-> RenderLine(t[i], d)]

\* the file written from a header and at most MaxRows rows, or an empty file
IsFile(file) ==
    \/ file = <<>>
    \/ \E h \in Headers, d \in FileDelims, n \in 0..MaxRows :
          \E t \in [1..n -> RowChoices(h)] : file = RenderFile(h, d, t)

----------------------------------------------------------------------------
(* pandas.read_csv / pandas.read_table as the read methods call them *)

IsBlank(line) == \A i \in 1..Len(line) : line[i] = " "

NotBlank(line) == ~IsBlank(line)

\* fields of a line under a one-character separator
RECURSIVE Split(_, _, _)
Split(line, sep, cur) ==
    IF line = <<>> THEN <<cur>>
    ELSE IF Head(line) = sep THEN <<cur>> \o Split(Tail(line), sep, <<>>)
    ELSE Split(Tail(line), sep, Append(cur, Head(line)))

RECURSIVE Strip(_)
Strip(line) ==
    IF line = <<>> THEN line
    ELSE IF Head(line) = " " THEN Strip(Tail(line))
    ELSE IF line[Len(line)] = " " THEN Strip(SubSeq(line, 1, Len(line) - 1))
    ELSE line

\* fields of a stripped line under sep='\s+': a run of spaces is one separator
RECURSIVE SplitWs(_, _)
SplitWs(line, cur) ==
    IF line = <<>> THEN <<cur>>
    ELSE IF Head(line) = " "
         THEN IF cur = <<>> THEN SplitWs(Tail(line), cur)
              ELSE <<cur>> \o SplitWs(Tail(line), <<>>)
    ELSE SplitWs(Tail(line), Append(cur, Head(line)))

Fields(line, sep) ==
    IF sep = "\\s+" THEN SplitWs(Strip(line), <<>>) ELSE Split(line, sep, <<>>)

\* default na_values: an empty field and the text NaN are read as numpy.nan
ToCell(field) == IF field = <<>> \/ field = <<"NaN">> THEN NaN ELSE field

\* a short line is padded with missing fields up to the table width
Pad(fs, w) == [j \in 1..w |-> IF j <= Len(fs) THEN ToCell(fs[j]) ELSE NaN]

Raise == [raised |-> TRUE, df |-> None]

Return(df) == [raised |-> FALSE, df |-> df]

(* pandas.read_table(..., sep='\s+', engine='python'), and the parse that   *)
(* read_csv shares with it.                                                 *)
(* Parse the whole file with the first line as header.  Blank lines are     *)
(* skipped; no line left raises EmptyDataError.  When the first data line   *)
(* has more fields than the header, the leading extra fields are index      *)
(* labels; a later line with more fields than that width raises ParserError.*)
read_table(file, sep) ==
    LET ls == SelectSeq(file, NotBlank)
        fs == [i \in 1..Len(ls) |-> Fields(ls[i], sep)]
        h  == Len(fs[1])
        w  == IF Len(fs) >= 2 /\ Len(fs[2]) > h THEN Len(fs[2]) ELSE h
    IN  IF Len(ls) = 0 THEN Raise
        ELSE IF \E i \in 3..Len(fs) : Len(fs[i]) > w THEN Raise
        ELSE Return(DataFrame(fs[1],
                 [i \in 1..(Len(fs) - 1) |->
                     [idx |-> i - 1,
                      cells |-> SubSeq(Pad(fs[i + 1], w), w - h + 1, w)]]))

\* pandas.read_csv(..., sep=separator, header='infer', encoding="utf-8")
read_csv(file, sep) == read_table(file, sep)

----------------------------------------------------------------------------
(* read *)

\* CsvDataProcessor.read: the try block encloses the whole for loop, so the
\* first separator whose parse raises ends the loop; self._dataset is
\* assigned before the column count is looked at.
RECURSIVE CsvReadLoop(_, _, _)
CsvReadLoop(file, i, ds) ==
    IF i > Len(separators)
    THEN [ret |-> "false", dataset |-> ds, separator |-> ""]
    ELSE LET r == read_csv(file, separators[i])
         IN  IF r.raised
             THEN [ret |-> "false", dataset |-> ds, separator |-> ""]
             ELSE IF Len(r.df.columns) > 1
             THEN [ret |-> "true", dataset |-> r.df,
                   separator |-> separators[i]]
             ELSE CsvReadLoop(file, i + 1, r.df)

\* TxtDataProcessor.read of lab4_5
TxtRead(file, ds) ==
    LET r == read_table(file, "\\s+")
    IN  IF r.raised THEN [ret |-> "false", dataset |-> ds]
        ELSE IF Len(r.df.columns) < 2 THEN [ret |-> "false", dataset |-> r.df]
        ELSE [ret |-> "true", dataset |-> r.df]

\* TxtDataProcessor.read of lab3: `if self._dataset.isna():` comes first.
\* On None it raises AttributeError; on a DataFrame isna() returns a
\* DataFrame whose truth value raises ValueError.  Either way the except
\* clause returns False before read_table is reached.
TxtReadLab3(file, ds) == [ret |-> "false", dataset |-> ds]

\* the caller constructs one processor per source and reads it once
AfterRead(r, sep) ==
    /\ last = "init"
    /\ dataset' = r.dataset
    /\ ret' = r.ret
    /\ separator' = sep
    /\ loaded' = IF r.ret = "true" THEN r.dataset ELSE None
    /\ first' = None
    /\ runs' = 0
    /\ last' = "read"
    /\ UNCHANGED <<kind, version, datasource, result, raised>>

CsvDataProcessor_read ==
    /\ kind = "csv"
    /\ LET r == CsvReadLoop(datasource, 1, dataset)
       IN  AfterRead(r, r.separator)

TxtDataProcessor_read ==
    /\ kind = "txt"
    /\ LET r == IF version = "lab3" THEN TxtReadLab3(datasource, dataset)
                ELSE TxtRead(datasource, dataset)
       IN  AfterRead(r, separator)

----------------------------------------------------------------------------
(* run *)

\* position of a column in df.columns, 0 when there is none (KeyError)
ColIndex(df, name) ==
    IF \E j \in 1..Len(df.columns) : df.columns[j] = name
    THEN CHOOSE j \in 1..Len(df.columns) : df.columns[j] = name
    ELSE 0

\* df[col].replace('', numpy.nan, inplace=True).  read_csv has already read
\* every empty field as numpy.nan, so no cell of a loaded Dataset is ''.
replace(df, j) ==
    DataFrame(df.columns,
        [i \in 1..Len(df.rows) |->
            [df.rows[i] EXCEPT !.cells[j] = IF @ = <<>> THEN NaN ELSE @]])

\* mutant of dropna: rows removed while iterating, so the row that follows a
\* removed row is never looked at
RECURSIVE DropSkippingNext(_, _)
DropSkippingNext(rws, j) ==
    IF rws = <<>> THEN <<>>
    ELSE IF Head(rws).cells[j] # NaN
         THEN <<Head(rws)>> \o DropSkippingNext(Tail(rws), j)
    ELSE IF Len(rws) = 1 THEN <<>>
    ELSE <<rws[2]>> \o DropSkippingNext(Tail(Tail(rws)), j)

dropna_skipping_next(df, j) ==
    DataFrame(df.columns, DropSkippingNext(df.rows, j))

\* df.dropna(subset=[col], inplace=True)
dropna(df, j) ==
    LET Present(r) == r.cells[j] # NaN
    IN  DataFrame(df.columns, SelectSeq(df.rows, Present))

\* for i in range(len(col_namess)): replace, then dropna, on column i
RECURSIVE CleanLoop(_, _, _)
CleanLoop(df, i, n) ==
    IF i > n THEN df ELSE CleanLoop(dropna(replace(df, i), i), i + 1, n)

\* mutant of Clean: the loop stops one column short
Clean_without_last_column(df) == CleanLoop(df, 1, Len(df.columns) - 1)

Clean(df) == CleanLoop(df, 1, Len(df.columns))

\* bin edges of pandas.cut: [0, 500000, 1500000, inf]
Bin0 == 0
Bin1 == 500000
Bin2 == 1500000

\* mutant of cut: right=False, the bins closed on the left
cut_right_false(cell) ==
    IF cell = NaN THEN NaN
    ELSE LET p == Num(cell)
         IN  IF Bin0 <= p /\ p < Bin1 THEN <<"1">>
             ELSE IF Bin1 <= p /\ p < Bin2 THEN <<"2">>
             ELSE IF Bin2 <= p THEN <<"3">>
             ELSE NaN

\* pandas.cut(..., labels=[1, 2, 3]) with the default right=True: the bins
\* are (0, 500000], (500000, 1500000], (1500000, inf]; a value in no bin,
\* or a missing value, gets no category
cut(cell) ==
    IF cell = NaN THEN NaN
    ELSE LET p == Num(cell)
         IN  IF Bin0 < p /\ p <= Bin1 THEN <<"1">>
             ELSE IF Bin1 < p /\ p <= Bin2 THEN <<"2">>
             ELSE IF Bin2 < p THEN <<"3">>
             ELSE NaN

\* self._dataset["price_category"] = ...: a new last column, or the
\* existing column of that name overwritten
WithCategory(df) ==
    LET p == ColIndex(df, PriceCol)
        c == ColIndex(df, CategoryCol)
    IN  IF c = 0
        THEN DataFrame(Append(df.columns, CategoryCol),
                 [i \in 1..Len(df.rows) |->
                     [df.rows[i] EXCEPT
                         !.cells = Append(@, cut(df.rows[i].cells[p]))]])
        ELSE DataFrame(df.columns,
                 [i \in 1..Len(df.rows) |->
                     [df.rows[i] EXCEPT
                         !.cells[c] = cut(df.rows[i].cells[p])]])

Perms(n) ==
    {f \in [1..n -> 1..n] : \A i, j \in 1..n : i # j => f[i] # f[j]}

(* df.sort_values(by=[colname], ascending=asc) with the defaults            *)
(* kind='quicksort', na_position='last': the rows with a value come first,  *)
(* ordered by it, then the rows with a missing value in their original      *)
(* order.  quicksort is not a stable sort (pandas documents only mergesort  *)
(* and stable as stable), so the order among equal values is whatever the   *)
(* build's numpy produces: every order of the ties is an outcome.           *)
sort_values(df, j, asc) ==
    LET n == Len(df.rows)
        k == Cardinality({i \in 1..n : df.rows[i].cells[j] # NaN})
        Ordered(f) ==
            /\ \A i \in 1..k : df.rows[f[i]].cells[j] # NaN
            /\ \A i \in 1..(k - 1) :
                 IF asc
                 THEN Num(df.rows[f[i]].cells[j]) <= Num(df.rows[f[i + 1]].cells[j])
                 ELSE Num(df.rows[f[i]].cells[j]) >= Num(df.rows[f[i + 1]].cells[j])
            /\ \A i \in (k + 1)..(n - 1) : f[i] < f[i + 1]
    IN  {DataFrame(df.columns, [i \in 1..n |-> df.rows[f[i]]]) :
            f \in {g \in Perms(n) : Ordered(g)}}

\* mutant of sort_data_by_col: the ascending flag inverted
sort_data_by_col_inverted(df, colname, asc) ==
    sort_values(df, ColIndex(df, colname), ~asc)

\* DataProcessor.sort_data_by_col: the set of tables it may return
sort_data_by_col(df, colname, asc) ==
    sort_values(df, ColIndex(df, colname), asc)

AfterRun ==
    /\ runs' = runs + 1
    /\ last' = "run"
    /\ first' = IF runs = 0 /\ ~raised' THEN result' ELSE first
    /\ UNCHANGED <<kind, version, datasource, separator, ret, loaded>>

\* CsvDataProcessor.run (lab4_5 starts with self.result = pandas.DataFrame();
\* lab3 does not).  Without a selling_price column the cleaning loop has
\* already changed the Dataset when the KeyError is raised.
CsvDataProcessor_run ==
    /\ kind = "csv"
    /\ ret = "true"
    /\ ~raised
    /\ runs < MaxRuns
    /\ LET cleaned == Clean(dataset)
           start == IF version = "lab4_5" THEN EmptyFrame ELSE result
       IN  IF ColIndex(cleaned, PriceCol) = 0
           THEN /\ dataset' = cleaned
                /\ result' = start
                /\ raised' = TRUE
           ELSE /\ dataset' = WithCategory(cleaned)
                /\ result' \in sort_data_by_col(WithCategory(cleaned), PriceCol, TRUE)
                /\ raised' = FALSE
    /\ AfterRun

\* TxtDataProcessor.run: no cleaning, no categories
TxtDataProcessor_run ==
    /\ kind = "txt"
    /\ ret = "true"
    /\ ~raised
    /\ runs < MaxRuns
    /\ IF ColIndex(dataset, PriceCol) = 0
       THEN /\ result' = result
            /\ raised' = TRUE
       ELSE /\ result' \in sort_data_by_col(dataset, PriceCol, TRUE)
            /\ raised' = FALSE
    /\ dataset' = dataset
    /\ AfterRun

----------------------------------------------------------------------------
(* The processor: constructed on a file, then read and run by its caller *)

Init ==
    /\ kind \in {"csv", "txt"}
    /\ version \in {"lab3", "lab4_5"}
    /\ IsFile(datasource)
    /\ dataset = None
    /\ result = None
    /\ separator = ""
    /\ ret = "none"
    /\ raised = FALSE
    /\ last = "init"
    /\ runs = 0
    /\ loaded = None
    /\ first = None

Next ==
    \/ CsvDataProcessor_read
    \/ TxtDataProcessor_read
    \/ CsvDataProcessor_run
    \/ TxtDataProcessor_run

Spec == Init /\ [][Next]_vars

----------------------------------------------------------------------------
(* Notions the properties are stated with *)

\* parsing the file with this separator gives a table of more than one column
YieldsMany(file, sep) ==
    LET r == read_csv(file, sep)
    IN  ~r.raised /\ Len(r.df.columns) > 1

\* position in self.separators of the first separator that does
FirstGood(file) ==
    CHOOSE i \in 1..Len(separators) :
        /\ YieldsMany(file, separators[i])
        /\ \A j \in 1..(i - 1) : ~YieldsMany(file, separators[j])

Price(r, df) == r.cells[ColIndex(df, PriceCol)]

Category(r, df) == r.cells[ColIndex(df, CategoryCol)]

\* the comparison a <= b of two cells as floats: false when either is nan
Leq(a, b) == a # NaN /\ b # NaN /\ Num(a) <= Num(b)

Range(s) == {s[i] : i \in 1..Len(s)}

Count(s, x) == Cardinality({i \in 1..Len(s) : s[i] = x})

SameMultiset(s, t) == \A x \in Range(s) \cup Range(t) : Count(s, x) = Count(t, x)

\* a row without its price_category cell, when the table has that column
Plain(r, df) ==
    LET c == ColIndex(df, CategoryCol)
    IN  IF c = 0 THEN r
        ELSE [r EXCEPT !.cells = SubSeq(@, 1, c - 1) \o SubSeq(@, c + 1, Len(@))]

Populated(r) == \A j \in 1..Len(r.cells) : r.cells[j] # NaN /\ r.cells[j] # <<>>

AfterCsvRun == kind = "csv" /\ last = "run" /\ ~raised

----------------------------------------------------------------------------
(* Properties *)

\* C1: whenever some separator of [';', ',', '|'] parses the file into more
\* than one column, CsvDataProcessor.read returns true and leaves the table
\* parsed with the first such separator, in that order.
C1_ReadTakesFirstDelimiter ==
    (kind = "csv" /\ last = "read"
        /\ \E i \in 1..Len(separators) : YieldsMany(datasource, separators[i]))
    => LET sep == separators[FirstGood(datasource)]
       IN  /\ ret = "true"
           /\ separator = sep
           /\ dataset = read_csv(datasource, sep).df

\* C2: when read on a freshly constructed processor returns false, the
\* Dataset is still absent (None).
C2_FailedReadLeavesNone ==
    (last = "read" /\ ret = "false") => dataset = None

\* C3: an exception raised while parsing with one separator fails that
\* separator only, so CsvDataProcessor.read returns false exactly when every
\* separator has failed (raised, or gave at most one column).
C3_ExceptionFailsOneDelimiterOnly ==
    (kind = "csv" /\ last = "read")
    => (ret = "false"
          <=> \A i \in 1..Len(separators) : ~YieldsMany(datasource, separators[i]))

\* C4: TxtDataProcessor.read on a fresh processor, in both shipped versions,
\* returns true when the whitespace-separated source parses into two or more
\* columns, and false when it parses into fewer or parsing raises.
C4_TxtReadResult ==
    (kind = "txt" /\ last = "read")
    => LET r == read_table(datasource, "\\s+")
       IN  ret = IF ~r.raised /\ Len(r.df.columns) >= 2 THEN "true" ELSE "false"

\* C5: after CsvDataProcessor.run every row of the Result with
\* 0 < price <= 500000 has category 1, with 500000 < price <= 1500000
\* category 2, with price > 1500000 category 3, with price <= 0 no category;
\* and the fully populated rows of the loaded Dataset with price <= 0 are in
\* the Result of the run on it.
C5_PriceCategoryBuckets ==
    AfterCsvRun
    => /\ \A r \in Range(result.rows) :
            LET p == Num(Price(r, result))
                c == Category(r, result)
            IN  /\ Price(r, result) # NaN
                /\ (0 < p /\ p <= 500000) => c = <<"1">>
                /\ (500000 < p /\ p <= 1500000) => c = <<"2">>
                /\ p > 1500000 => c = <<"3">>
                /\ p <= 0 => c = NaN
       /\ runs = 1 =>
            \A r \in Range(loaded.rows) :
                (Populated(r) /\ Num(Price(r, loaded)) <= 0)
                => \E q \in Range(result.rows) :
                      Plain(q, result) = r /\ Category(q, result) = NaN

C5_Witness ==
    /\ AfterCsvRun
    /\ runs = 1
    /\ \E r \in Range(result.rows) :
          Price(r, result) = <<"500000">> /\ Category(r, result) = <<"1">>
    /\ \E r \in Range(result.rows) :
          Price(r, result) = <<"0">> /\ Category(r, result) = NaN

\* C6 as stated: after run of either variant, every pair of adjacent rows
\* (a, b) of the Result has a.selling_price <= b.selling_price, and the
\* Result holds the same multiset of rows as the Dataset that was sorted.
C6_ResultAscending ==
    (last = "run" /\ ~raised)
    => /\ \A i \in 1..(Len(result.rows) - 1) :
            Leq(Price(result.rows[i], result), Price(result.rows[i + 1], result))
       /\ SameMultiset(result.rows, dataset.rows)

\* C6 amended: after run of either variant, adjacent rows of the Result that
\* both have a selling_price are in ascending order of it, a row with a
\* missing selling_price is followed only by such rows, the CSV Result has no
\* row with a missing selling_price, and the Result holds the same multiset
\* of rows as the Dataset that was sorted.
C6_ResultAscendingMissingLast ==
    (last = "run" /\ ~raised)
    => /\ \A i \in 1..(Len(result.rows) - 1) :
            LET a == Price(result.rows[i], result)
                b == Price(result.rows[i + 1], result)
            IN  /\ (a # NaN /\ b # NaN) => Num(a) <= Num(b)
                /\ a = NaN => b = NaN
       /\ kind = "csv" => \A r \in Range(result.rows) : Price(r, result) # NaN
       /\ SameMultiset(result.rows, dataset.rows)

C6_Witness ==
    /\ kind = "txt"
    /\ last = "run"
    /\ ~raised
    /\ Len(result.rows) = 2
    /\ Price(result.rows[1], result) # NaN
    /\ Price(result.rows[2], result) = NaN
    /\ Price(dataset.rows[1], dataset) = NaN

\* C7: sort_data_by_col is stable: of two rows with equal values in the sort
\* column, the one that comes first in the input comes first in the output.
C7_SortIsStable ==
    (last = "run" /\ ~raised)
    => \A i, j \in 1..Len(result.rows) :
          (i < j /\ Price(result.rows[i], result) = Price(result.rows[j], result))
          => result.rows[i].idx < result.rows[j].idx

\* C8: the CSV cleaning step is idempotent: applied to a Dataset it has
\* already cleaned, it drops no further row and yields the same rows.
C8_CleaningIdempotent ==
    (kind = "csv" /\ dataset.some)
    => /\ Clean(Clean(dataset)).rows = Clean(dataset).rows
       /\ Len(Clean(Clean(dataset)).rows) = Len(Clean(dataset).rows)

C8_Witness ==
    /\ AfterCsvRun
    /\ runs = 1
    /\ Len(loaded.rows) = 2
    /\ Len(dataset.rows) = 1
    /\ Clean(dataset).rows = dataset.rows

\* C9: after run on a Loaded CSV processor the rows of the Result are exactly
\* the rows of the loaded Dataset with no missing (or empty-string) cell in
\* any column.
C9_CleaningIsRowFilter ==
    (AfterCsvRun /\ runs = 1)
    => {Plain(r, result) : r \in Range(result.rows)}
         = {r \in Range(loaded.rows) : Populated(r)}

C9_Witness ==
    /\ AfterCsvRun
    /\ runs = 1
    /\ Len(result.rows) = 1
    /\ \E r \in Range(loaded.rows) :
          /\ Price(r, loaded) # NaN
          /\ ~Populated(r)

\* C10: for a CsvDataProcessor after one successful read, the Result after
\* run; run holds the same rows as the Result after a single run.
C10_SecondRunSameRows ==
    (AfterCsvRun /\ runs = 2)
    => SameMultiset(result.rows, first.rows)

====
